---- MODULE Spec2Model ----
(***************************************************************************)
(* A model of the configuration client of prefab-cloud-python:             *)
(*   - ConfigClient   (config_client.py): readiness gate, checkpoint loop, *)
(*     streaming loop, load_configs, disk cache, lookups (get/__get);      *)
(*   - ConfigResolver / CriteriaEvaluator (config_resolver.py): the        *)
(*     read/write locked local store and the rule evaluator.               *)
(* ConfigLoader, ReadWriteLock, CountDownLatch, Context and                *)
(* ConfigValueUnwrapper are imported by these files but are not part of    *)
(* the sources at hand; they are modelled from the specification.          *)
(***************************************************************************)
EXTENDS Integers, Sequences, FiniteSets, TLC

\* ------------------------------------------------------------------ bounds
\* Highest config id (= highwater mark) a payload carries.
MaxId == 2
\* Nested ConfigResolver.get calls (segments inside segments) a lookup may
\* have on its call stack before the interpreter's recursion limit hits.
MaxDepth == 2
\* Conditional values per row in the enumerated rules of SpecEval.
MaxValues == 2

\* ------------------------------------------------------- values and strings
\* Python strings are tuples of one-character strings, so that endswith and
\* startswith are computed and not assumed.  None is a value of its own.
PyNone == <<"<None>">>
\* str(None)
StrNone == <<"N", "o", "n", "e">>
str(v) == IF v = PyNone THEN StrNone ELSE v

endswith(s, e) ==
    /\ Len(e) <= Len(s)
    /\ SubSeq(s, Len(s) - Len(e) + 1, Len(s)) = e

startswith(s, p) ==
    /\ Len(p) <= Len(s)
    /\ SubSeq(s, 1, Len(p)) = p

\* Unwrapped config values and defaults are plain strings.
NoneVal == "None"
NoDefaultProvided == "NO_DEFAULT_PROVIDED"

\* Prefab.ConfigValue: one typed literal.
BoolValue(b) == [type |-> "bool", v |-> IF b THEN "true" ELSE "false"]
StringValue(s) == [type |-> "string", v |-> s]
\* ConfigValue.bool: the bool field, False when the value holds another type.
bool_field(cv) == cv.type = "bool" /\ cv.v = "true"
\* ConfigValueUnwrapper(...).unwrap() of a literal.
unwrap(cv) == cv.v

\* Prefab.Criterion
Criterion(prop, op, vtm) ==
    [property_name |-> prop, operator |-> op, value_to_match |-> vtm]
\* value_to_match variants
StringList(l) == [type |-> "string_list", values |-> l, string |-> <<>>]
StringOf(s) == [type |-> "string", values |-> <<>>, string |-> s]
\* a segment key as the value_to_match.string of IN_SEG / NOT_IN_SEG
SegRef(k) == [type |-> "string", values |-> <<>>, string |-> k]

ConditionalValue(criteria, value) == [criteria |-> criteria, value |-> value]
ConfigRow(env, values) == [project_env_id |-> env, values |-> values]
Config(key, id, rows) == [key |-> key, id |-> id, rows |-> rows]

\* The absent config (raw() returning None) and the absent Evaluation,
\* shaped like the present ones so that they compare.
NoneConfig == Config("<None>", 0, <<>>)
NoneEvaluation ==
    [config |-> NoneConfig, value |-> StringValue(NoneVal),
     value_index |-> -1, config_row_index |-> -1]
\* Evaluation.__init__ (the context and resolver handles are left out: no
\* modelled operation reads them back).
Evaluation(config, value, value_index, config_row_index) ==
    [config |-> config, value |-> value,
     value_index |-> value_index, config_row_index |-> config_row_index]
\* Evaluation.unwrapped_value: the literal of the matched value.
unwrapped_value(e) == unwrap(e.value)
\* Evaluation.raw_config_value
raw_config_value(e) == e.value

\* ------------------------------------------------------------------ context
\* A context maps property names to values; an absent property reads None.
PropNames == {"p"}
EmptyContext == [n \in PropNames |-> PyNone]
ContextOf(v) == [n \in PropNames |-> v]
\* properties.get(name)
context_get(props, name) == IF name \in DOMAIN props THEN props[name] ELSE PyNone
\* Context.merge_default: caller values win, server defaults fill the gaps.
merge_default(context, dflt) ==
    [n \in PropNames |-> IF context[n] # PyNone THEN context[n] ELSE dflt[n]]

\* options.namespace
Namespace == PyNone

\* -------------------------------------------------------- CriteriaEvaluator
SegOps == {"IN_SEG", "NOT_IN_SEG"}
PyBool(b) == IF b THEN "True" ELSE "False"

\* CriteriaEvaluator.matches: membership in a string list (on str(value)),
\* equality otherwise.
matches(criterion, value) ==
    IF criterion.value_to_match.type = "string_list"
    THEN \E i \in 1..Len(criterion.value_to_match.values) :
            criterion.value_to_match.values[i] = str(value)
    ELSE value = criterion.value_to_match.string

any_endswith(value, endings) ==
    \E i \in 1..Len(endings) : endswith(str(value), endings[i])

\* An evaluate_criterion whose two ends-with operators treat an absent value
\* alike (both answer False); the other paired operators as in the code.
evaluate_criterion_same_on_none(criterion, properties, in_seg) ==
    LET value_from_properties ==
            IF criterion.property_name = "NAMESPACE"
            THEN Namespace
            ELSE context_get(properties, criterion.property_name)
        op == criterion.operator
    IN  CASE op \in {"LOOKUP_KEY_IN", "PROP_IS_ONE_OF"} ->
                PyBool(matches(criterion, value_from_properties))
          [] op \in {"LOOKUP_KEY_NOT_IN", "PROP_IS_NOT_ONE_OF"} ->
                PyBool(~matches(criterion, value_from_properties))
          [] op = "PROP_ENDS_WITH_ONE_OF" ->
                PyBool(value_from_properties # PyNone
                       /\ any_endswith(value_from_properties,
                                       criterion.value_to_match.values))
          [] op = "PROP_DOES_NOT_END_WITH_ONE_OF" ->
                PyBool(value_from_properties # PyNone
                       /\ ~any_endswith(value_from_properties,
                                        criterion.value_to_match.values))
          [] OTHER -> "False"

\* CriteriaEvaluator.evaluate_criterion.  in_seg is what in_segment returned
\* for this criterion (read only by IN_SEG / NOT_IN_SEG).  The result is
\* "True", "False", or "AttributeError" when the code calls a method on None.
evaluate_criterion(criterion, properties, in_seg) ==
    LET value_from_properties ==
            IF criterion.property_name = "NAMESPACE"
            THEN Namespace
            ELSE context_get(properties, criterion.property_name)
        op == criterion.operator
    IN  CASE op \in {"LOOKUP_KEY_IN", "PROP_IS_ONE_OF"} ->
                PyBool(matches(criterion, value_from_properties))
          [] op \in {"LOOKUP_KEY_NOT_IN", "PROP_IS_NOT_ONE_OF"} ->
                PyBool(~matches(criterion, value_from_properties))
          [] op = "IN_SEG" -> PyBool(in_seg)
          [] op = "NOT_IN_SEG" -> PyBool(~in_seg)
          [] op = "PROP_ENDS_WITH_ONE_OF" ->
                IF value_from_properties = PyNone
                THEN "False"
                ELSE PyBool(any_endswith(value_from_properties,
                                         criterion.value_to_match.values))
          [] op = "PROP_DOES_NOT_END_WITH_ONE_OF" ->
                IF value_from_properties = PyNone
                THEN "True"
                ELSE PyBool(~any_endswith(value_from_properties,
                                          criterion.value_to_match.values))
          [] op = "HIERARCHICAL_MATCH" ->
                IF value_from_properties = PyNone
                THEN "AttributeError"
                ELSE PyBool(startswith(value_from_properties,
                                       criterion.value_to_match.string))
          [] op = "ALWAYS_TRUE" -> "True"
          [] OTHER -> "False"

\* index of the first row satisfying the filter, 0 when there is none
FirstRow(config, isEnvRow) ==
    LET hits == {i \in 1..Len(config.rows) :
                    (config.rows[i].project_env_id = isEnvRow.env) = isEnvRow.eq}
    IN  IF hits = {} THEN 0 ELSE CHOOSE i \in hits : \A j \in hits : i <= j

\* CriteriaEvaluator.matching_environment_row_values
matching_environment_row_values(config, project_env_id) ==
    LET i == FirstRow(config, [env |-> project_env_id, eq |-> TRUE])
    IN  IF i = 0 THEN <<>> ELSE config.rows[i].values

\* CriteriaEvaluator.default_row_values
default_row_values(config, project_env_id) ==
    LET i == FirstRow(config, [env |-> project_env_id, eq |-> FALSE])
    IN  IF i = 0 THEN <<>> ELSE config.rows[i].values

\* The values scanned in pass `row` of evaluate (0: environment row,
\* 1: default row).
RowValues(config, project_env_id, row) ==
    IF row = 0
    THEN matching_environment_row_values(config, project_env_id)
    ELSE default_row_values(config, project_env_id)

\* Outcomes of running evaluate up to its next call of in_segment.
EvalReturn(e) ==
    [kind |-> "return", evaluation |-> e, row |-> 0, vi |-> 0, ci |-> 0]
EvalRaise ==
    [kind |-> "raise", evaluation |-> NoneEvaluation, row |-> 0, vi |-> 0, ci |-> 0]
EvalCall(row, vi, ci) ==
    [kind |-> "call", evaluation |-> NoneEvaluation, row |-> row, vi |-> vi, ci |-> ci]

\* CriteriaEvaluator.evaluate with all_criteria_match inlined, run from
\* criterion ci of conditional value vi of pass `row` until it returns an
\* Evaluation (or None), raises, or reaches an IN_SEG / NOT_IN_SEG criterion,
\* whose in_segment call goes back through ConfigResolver.get.
RECURSIVE evaluate_from(_, _, _, _, _, _)
evaluate_from(config, project_env_id, props, row, vi, ci) ==
    LET values == RowValues(config, project_env_id, row)
    IN  IF vi > Len(values)
        THEN IF row = 0
             THEN evaluate_from(config, project_env_id, props, 1, 1, 1)
             ELSE EvalReturn(NoneEvaluation)
        ELSE IF ci > Len(values[vi].criteria)
        THEN EvalReturn(Evaluation(config, values[vi].value, vi - 1, row))
        ELSE IF values[vi].criteria[ci].operator \in SegOps
        THEN EvalCall(row, vi, ci)
        ELSE LET r == evaluate_criterion(values[vi].criteria[ci], props, FALSE)
             IN  CASE r = "AttributeError" -> EvalRaise
                   [] r = "True" ->
                        evaluate_from(config, project_env_id, props, row, vi, ci + 1)
                   [] OTHER ->
                        evaluate_from(config, project_env_id, props, row, vi + 1, 1)

\* An evaluate that passes over a conditional value whose segment criterion
\* has just been answered, whatever the answer.
evaluate_resume_passing_over(frame, in_seg) ==
    evaluate_from(frame.config, frame.project_env_id, frame.props,
                  frame.row, frame.vi + 1, 1)

\* CriteriaEvaluator.evaluate resumed after in_segment returned in_seg for the
\* criterion the frame stopped at.
evaluate_resume(frame, in_seg) ==
    LET values == RowValues(frame.config, frame.project_env_id, frame.row)
        r == evaluate_criterion(values[frame.vi].criteria[frame.ci],
                                frame.props, in_seg)
    IN  IF r = "True"
        THEN evaluate_from(frame.config, frame.project_env_id, frame.props,
                           frame.row, frame.vi, frame.ci + 1)
        ELSE evaluate_from(frame.config, frame.project_env_id, frame.props,
                           frame.row, frame.vi + 1, 1)

\* ------------------------------------------------------------------- state
VARIABLES
    options,            \* base_client.options, fixed at construction
    api_config,         \* config_loader.api_config: key -> config
    highwater_mark,     \* config_loader.highwater_mark
    local_store,        \* config_resolver.local_store: key -> config
    project_env_id,     \* config_resolver.project_env_id
    default_context,    \* config_resolver.default_context
    lock,               \* config_resolver.lock
    is_initialized,     \* ConfigClient.is_initialized (threading.Event)
    init_latch,         \* ConfigClient.init_latch (count of the latch)
    shutdown_flag,      \* base_client.shutdown_flag
    sse_client,         \* ConfigClient.sse_client: "None", "open", "closed"
    cache_file,         \* the file at cache_path
    th,                 \* the two background threads: position and locals
    close_called,       \* the application has returned from close()
    rd                  \* a caller thread inside ConfigClient.get

vars == <<options, api_config, highwater_mark, local_store, project_env_id,
          default_context, lock, is_initialized, init_latch, shutdown_flag,
          sse_client, cache_file, th, close_called, rd>>

\* --------------------------------------------------------------- store, lock
EmptyStore == [k \in {} |-> NoneConfig]
\* ConfigResolver.raw on a given mapping
raw_in(store, key) == IF key \in DOMAIN store THEN store[key] ELSE NoneConfig
\* ConfigResolver.raw
raw(key) == raw_in(local_store, key)

\* ReadWriteLock: any number of readers or one writer.
FreeLock == [readers |-> 0, writer |-> FALSE]
can_acquire_read(l) == ~l.writer
can_acquire_write(l) == ~l.writer /\ l.readers = 0
acquire_read(l) == [l EXCEPT !.readers = @ + 1]
release_read(l) == [l EXCEPT !.readers = @ - 1]
acquire_write(l) == [l EXCEPT !.writer = TRUE]
release_write(l) == [l EXCEPT !.writer = FALSE]

\* ----------------------------------------------------------- caller thread
NoResult == [kind |-> "none", value |-> NoneVal, exc |-> "", key |-> <<>>, timeout |-> 0]
Return(v) == [kind |-> "return", value |-> v, exc |-> "", key |-> <<>>, timeout |-> 0]
Raise(exc) == [kind |-> "raise", value |-> NoneVal, exc |-> exc, key |-> <<>>, timeout |-> 0]
\* InitializationTimeoutException(timeout_seconds, key)
InitializationTimeoutException(timeout_seconds, key) ==
    [kind |-> "raise", value |-> NoneVal, exc |-> "InitializationTimeoutException",
     key |-> key, timeout |-> timeout_seconds]
\* MissingDefaultException(key)
MissingDefaultException(key) ==
    [kind |-> "raise", value |-> NoneVal, exc |-> "MissingDefaultException",
     key |-> key, timeout |-> 0]

IdleReader ==
    [pc |-> "idle", key |-> <<>>, default |-> NoDefaultProvided,
     context |-> EmptyContext, timed_out |-> FALSE,
     call_key |-> <<>>, call_context |-> EmptyContext,
     raw_config |-> NoneConfig, snap |-> EmptyStore,
     top_read |-> FALSE, top_raw |-> NoneConfig, top_snap |-> EmptyStore,
     stack |-> <<>>, ret |-> NoneEvaluation,
     evaluation_result |-> NoneEvaluation, result |-> NoResult,
     is_ff_raw |-> NoneConfig]

\* handle_default, had it looked at on_no_default before the default.
handle_default_policy_first(key, default) ==
    IF options.on_no_default = "RAISE"
    THEN MissingDefaultException(key)
    ELSE IF default # NoDefaultProvided THEN Return(default) ELSE Return(NoneVal)

\* ConfigClient.handle_default
handle_default(key, default) ==
    IF default # NoDefaultProvided
    THEN Return(default)
    ELSE IF options.on_no_default = "RAISE"
         THEN MissingDefaultException(key)
         ELSE Return(NoneVal)

\* ConfigClient.get after __get returned evaluation_result
get_result(key, default, evaluation_result) ==
    IF evaluation_result # NoneEvaluation /\ evaluation_result.config # NoneConfig
    THEN Return(unwrapped_value(evaluation_result))
    ELSE handle_default(key, default)

\* The application calls Client.get(key, default, context), which begins
\* with self.is_ff(key).
ClientGet(keys, defaults, contexts) ==
    /\ rd.pc \in {"idle", "done"}
    /\ \E key \in keys, default \in defaults, context \in contexts :
          rd' = [IdleReader EXCEPT !.pc = "is_ff", !.key = key,
                                   !.default = default, !.context = context]
    /\ UNCHANGED <<options, api_config, highwater_mark, local_store,
                   project_env_id, default_context, lock, is_initialized,
                   init_latch, shutdown_flag, sse_client, cache_file, th,
                   close_called>>

\* Client.is_ff: raw = self.config_client().config_resolver.raw(key), called
\* on the resolver directly, with no acquire_read; none of the rules at hand
\* is a FEATURE_FLAG, so Client.get goes on to config_client().get.
ClientIsFF ==
    /\ rd.pc = "is_ff"
    /\ rd' = [rd EXCEPT !.pc = "wait", !.is_ff_raw = raw(rd.key)]
    /\ UNCHANGED <<options, api_config, highwater_mark, local_store,
                   project_env_id, default_context, lock, is_initialized,
                   init_latch, shutdown_flag, sse_client, cache_file, th,
                   close_called>>

\* The application calls ConfigClient.get(key, default, context).
ReaderCall(keys, defaults, contexts) ==
    /\ rd.pc \in {"idle", "done"}
    /\ \E key \in keys, default \in defaults, context \in contexts :
          rd' = [IdleReader EXCEPT !.pc = "wait", !.key = key,
                                   !.default = default, !.context = context]
    /\ UNCHANGED <<options, api_config, highwater_mark, local_store,
                   project_env_id, default_context, lock, is_initialized,
                   init_latch, shutdown_flag, sse_client, cache_file, th,
                   close_called>>

\* __get: init_latch.wait returned True.
ReaderWaitOk ==
    /\ rd.pc = "wait"
    /\ init_latch = 0
    /\ rd' = [rd EXCEPT !.pc = "acquire_read", !.call_key = rd.key,
                        !.call_context = rd.context]
    /\ UNCHANGED <<options, api_config, highwater_mark, local_store,
                   project_env_id, default_context, lock, is_initialized,
                   init_latch, shutdown_flag, sse_client, cache_file, th,
                   close_called>>

\* The timeout branch of __get, had it read the snapshot before raising.
ReaderWaitTimeoutReadingFirst ==
    /\ rd.pc = "wait"
    /\ init_latch > 0
    /\ rd' = IF options.on_connection_failure = "RAISE"
             THEN [rd EXCEPT !.pc = "done", !.timed_out = TRUE,
                             !.top_read = TRUE, !.top_raw = raw(rd.key),
                             !.top_snap = local_store,
                             !.result = InitializationTimeoutException(
                                 options.connection_timeout_seconds, rd.key)]
             ELSE [rd EXCEPT !.pc = "acquire_read", !.timed_out = TRUE,
                             !.call_key = rd.key, !.call_context = rd.context]
    /\ UNCHANGED <<options, api_config, highwater_mark, local_store,
                   project_env_id, default_context, lock, is_initialized,
                   init_latch, shutdown_flag, sse_client, cache_file, th,
                   close_called>>

\* __get: init_latch.wait timed out with the latch still closed.
ReaderWaitTimeout ==
    /\ rd.pc = "wait"
    /\ init_latch > 0
    /\ rd' = IF options.on_connection_failure = "RAISE"
             THEN [rd EXCEPT !.pc = "done", !.timed_out = TRUE,
                             !.result = InitializationTimeoutException(
                                 options.connection_timeout_seconds, rd.key)]
             ELSE [rd EXCEPT !.pc = "acquire_read", !.timed_out = TRUE,
                             !.call_key = rd.key, !.call_context = rd.context]
    /\ UNCHANGED <<options, api_config, highwater_mark, local_store,
                   project_env_id, default_context, lock, is_initialized,
                   init_latch, shutdown_flag, sse_client, cache_file, th,
                   close_called>>

\* ConfigResolver.get: self.lock.acquire_read()
ReaderAcquireRead ==
    /\ rd.pc = "acquire_read"
    /\ can_acquire_read(lock)
    /\ lock' = acquire_read(lock)
    /\ rd' = [rd EXCEPT !.pc = "raw"]
    /\ UNCHANGED <<options, api_config, highwater_mark, local_store,
                   project_env_id, default_context, is_initialized,
                   init_latch, shutdown_flag, sse_client, cache_file, th,
                   close_called>>

\* ConfigResolver.get: raw_config = self.raw(key)
ReaderRaw ==
    /\ rd.pc = "raw"
    /\ rd' = [rd EXCEPT !.pc = "release_read",
                        !.raw_config = raw(rd.call_key),
                        !.snap = local_store,
                        !.top_read = TRUE,
                        !.top_raw = IF rd.stack = <<>> THEN raw(rd.call_key) ELSE @,
                        !.top_snap = IF rd.stack = <<>> THEN local_store ELSE @]
    /\ UNCHANGED <<options, api_config, highwater_mark, local_store,
                   project_env_id, default_context, lock, is_initialized,
                   init_latch, shutdown_flag, sse_client, cache_file, th,
                   close_called>>

\* ConfigResolver.get: self.lock.release_read(), then None or evaluate
ReaderReleaseRead ==
    /\ rd.pc = "release_read"
    /\ lock' = release_read(lock)
    /\ rd' = IF rd.raw_config = NoneConfig
             THEN [rd EXCEPT !.pc = "return", !.ret = NoneEvaluation]
             ELSE [rd EXCEPT !.pc = "evaluate"]
    /\ UNCHANGED <<options, api_config, highwater_mark, local_store,
                   project_env_id, default_context, is_initialized,
                   init_latch, shutdown_flag, sse_client, cache_file, th,
                   close_called>>

\* The caller thread after a piece of CriteriaEvaluator.evaluate ran on
\* (config, env, props) with outcome out.
AfterEvaluate(r, config, env, props, snap, out) ==
    CASE out.kind = "raise" ->
            [r EXCEPT !.pc = "done", !.stack = <<>>, !.result = Raise("AttributeError")]
      [] out.kind = "return" ->
            [r EXCEPT !.pc = "return", !.ret = out.evaluation]
      [] OTHER ->
            IF Len(r.stack) >= MaxDepth
            THEN [r EXCEPT !.pc = "done", !.stack = <<>>,
                           !.result = Raise("RecursionError")]
            ELSE [r EXCEPT
                    !.pc = "acquire_read",
                    !.stack = Append(@, [config |-> config, project_env_id |-> env,
                                         props |-> props, row |-> out.row,
                                         vi |-> out.vi, ci |-> out.ci,
                                         snap |-> snap]),
                    \* in_segment: self.resolver.get(value_to_match.string,
                    \*                               context=properties)
                    !.call_key = RowValues(config, env, out.row)[out.vi]
                                    .criteria[out.ci].value_to_match.string,
                    !.call_context = props]

\* ConfigResolver.evaluate: builds the CriteriaEvaluator from project_env_id,
\* merges default_context into the context and runs evaluate.
ReaderEvaluate ==
    /\ rd.pc = "evaluate"
    /\ LET props == merge_default(rd.call_context, default_context)
       IN  rd' = AfterEvaluate(rd, rd.raw_config, project_env_id, props, rd.snap,
                   evaluate_from(rd.raw_config, project_env_id, props, 0, 1, 1))
    /\ UNCHANGED <<options, api_config, highwater_mark, local_store,
                   project_env_id, default_context, lock, is_initialized,
                   init_latch, shutdown_flag, sse_client, cache_file, th,
                   close_called>>

\* CriteriaEvaluator.in_segment on what the nested ConfigResolver.get returned:
\* .raw_config_value().bool, an AttributeError on None.
in_segment(ret) ==
    IF ret = NoneEvaluation
    THEN "AttributeError"
    ELSE PyBool(bool_field(raw_config_value(ret)))

\* A ConfigResolver.get returns rd.ret: to ConfigClient.get when it is the
\* outermost call, to the in_segment that made it otherwise.
ReaderReturn ==
    /\ rd.pc = "return"
    /\ rd' = IF rd.stack = <<>>
             THEN [rd EXCEPT !.pc = "done", !.evaluation_result = rd.ret,
                             !.result = get_result(rd.key, rd.default, rd.ret)]
             ELSE LET frame == rd.stack[Len(rd.stack)]
                      popped == [rd EXCEPT !.stack = SubSeq(@, 1, Len(@) - 1)]
                      seg == in_segment(rd.ret)
                  IN  IF seg = "AttributeError"
                      THEN [rd EXCEPT !.pc = "done", !.stack = <<>>,
                                      !.result = Raise("AttributeError")]
                      ELSE AfterEvaluate(popped, frame.config, frame.project_env_id,
                                         frame.props, frame.snap,
                                         evaluate_resume(frame, seg = "True"))
    /\ UNCHANGED <<options, api_config, highwater_mark, local_store,
                   project_env_id, default_context, lock, is_initialized,
                   init_latch, shutdown_flag, sse_client, cache_file, th,
                   close_called>>

\* ---------------------------------------------------------------- payloads
\* Keys and property values are Python strings.
Flag == <<"f", "l", "a", "g">>
Seg == <<"s", "e", "g">>
NoKey == <<"n", "o">>
AB == <<"a", "b">>
B == <<"b">>

\* A Prefab.Configs message: config_service_pointer.project_env_id,
\* default_context and configs.
Configs(env, ctx, configs) ==
    [project_env_id |-> env, default_context |-> ctx, configs |-> configs]
\* No readable file at cache_path.
NoFile == Configs(-1, EmptyContext, <<>>)

\* The segment: true for p = "ab", false otherwise.
SegRule(id) ==
    Config(Seg, id,
        <<ConfigRow(1,
            <<ConditionalValue(
                  <<Criterion("p", "PROP_IS_ONE_OF", StringList(<<AB>>))>>,
                  BoolValue(TRUE)),
              ConditionalValue(
                  <<Criterion("", "ALWAYS_TRUE", StringOf(<<>>))>>,
                  BoolValue(FALSE))>>)>>)
\* The flag: "on" inside the segment, no match outside it.
FlagRule(id) ==
    Config(Flag, id,
        <<ConfigRow(1,
            <<ConditionalValue(
                  <<Criterion("", "IN_SEG", SegRef(Seg))>>,
                  StringValue("on"))>>)>>)
\* What the service holds at highwater mark i: both rules at id i, and a
\* default context that puts callers inside the segment at odd i only.
Payload(i) ==
    Configs(1, ContextOf(IF i % 2 = 1 THEN AB ELSE B), <<FlagRule(i), SegRule(i)>>)
Payloads == {Payload(i) : i \in 1..MaxId}

\* ------------------------------------------------------------- ConfigLoader
Max(a, b) == IF a >= b THEN a ELSE b
\* ConfigLoader.set: a rule replaces the stored rule of its key when it is
\* newer, and the highwater mark only ever rises.
loader_set(loader, config) ==
    IF raw_in(loader.api_config, config.key).id >= config.id
       /\ config.key \in DOMAIN loader.api_config
    THEN loader
    ELSE [api_config |->
              [k \in DOMAIN loader.api_config \cup {config.key} |->
                  IF k = config.key THEN config ELSE loader.api_config[k]],
          highwater_mark |-> Max(loader.highwater_mark, config.id)]
\* ConfigLoader.calc_config: the mapping to publish
calc_config(ac) == ac

RECURSIVE set_all(_, _, _)
set_all(loader, configs, i) ==
    IF i > Len(configs) THEN loader
    ELSE set_all(loader_set(loader, configs[i]), configs, i + 1)

\* CountDownLatch.count_down
count_down(count) == IF count > 0 THEN count - 1 ELSE count

\* ConfigClient.cache_configs: the file at cache_path after the call.
cache_configs(configs) ==
    IF ~options.use_local_cache \/ ~options.has_cache_path
    THEN cache_file
    ELSE configs

\* ------------------------------------------------------- background threads
Threads == {"checkpoint", "streaming"}
ThreadAt(pc) ==
    [pc |-> pc, configs |-> NoFile, source |-> "", i |-> 0,
     starting_highwater_mark |-> 0]

\* load_configs is entered by thread t with (configs, source).
EnterLoadConfigs(t, configs, source) ==
    [th EXCEPT ![t] = [pc |-> "lc_env", configs |-> configs, source |-> source,
                       i |-> 1, starting_highwater_mark |-> 0]]

\* load_configs: self.config_resolver.project_env_id = project_env_id;
\* starting_highwater_mark = self.config_loader.highwater_mark
LoadConfigsEnv(t) ==
    /\ th[t].pc = "lc_env"
    /\ project_env_id' = th[t].configs.project_env_id
    /\ th' = [th EXCEPT ![t].pc = "lc_ctx",
                        ![t].starting_highwater_mark = highwater_mark]
    /\ UNCHANGED <<options, api_config, highwater_mark, local_store,
                   default_context, lock, is_initialized, init_latch,
                   shutdown_flag, sse_client, cache_file, close_called, rd>>

\* load_configs: self.config_resolver.default_context = default_contexts
LoadConfigsContext(t) ==
    /\ th[t].pc = "lc_ctx"
    /\ default_context' = th[t].configs.default_context
    /\ th' = [th EXCEPT ![t].pc = "lc_set"]
    /\ UNCHANGED <<options, api_config, highwater_mark, local_store,
                   project_env_id, lock, is_initialized, init_latch,
                   shutdown_flag, sse_client, cache_file, close_called, rd>>

\* load_configs: one turn of `for config in configs.configs:
\* self.config_loader.set(config, source)`, or its end.
LoadConfigsSet(t) ==
    /\ th[t].pc = "lc_set"
    /\ IF th[t].i > Len(th[t].configs.configs)
       THEN /\ th' = [th EXCEPT ![t].pc = "lc_acquire"]
            /\ UNCHANGED <<api_config, highwater_mark>>
       ELSE LET l == loader_set([api_config |-> api_config,
                                 highwater_mark |-> highwater_mark],
                                th[t].configs.configs[th[t].i])
            IN  /\ api_config' = l.api_config
                /\ highwater_mark' = l.highwater_mark
                /\ th' = [th EXCEPT ![t].i = @ + 1]
    /\ UNCHANGED <<options, local_store, project_env_id, default_context, lock,
                   is_initialized, init_latch, shutdown_flag, sse_client,
                   cache_file, close_called, rd>>

\* A load_configs that calls finish_init before config_resolver.update.
MakeLocalAcquireOpeningGate(t) ==
    /\ th[t].pc = "lc_acquire"
    /\ can_acquire_write(lock)
    /\ lock' = acquire_write(lock)
    /\ is_initialized' = TRUE
    /\ init_latch' = count_down(init_latch)
    /\ th' = [th EXCEPT ![t].pc = "lc_swap"]
    /\ UNCHANGED <<options, api_config, highwater_mark, local_store,
                   project_env_id, default_context, shutdown_flag, sse_client,
                   cache_file, close_called, rd>>

\* make_local: self.lock.acquire_write()
MakeLocalAcquire(t) ==
    /\ th[t].pc = "lc_acquire"
    /\ can_acquire_write(lock)
    /\ lock' = acquire_write(lock)
    /\ th' = [th EXCEPT ![t].pc = "lc_swap"]
    /\ UNCHANGED <<options, api_config, highwater_mark, local_store,
                   project_env_id, default_context, is_initialized, init_latch,
                   shutdown_flag, sse_client, cache_file, close_called, rd>>

\* make_local: self.local_store = self.config_loader.calc_config()
MakeLocalSwap(t) ==
    /\ th[t].pc = "lc_swap"
    /\ local_store' = calc_config(api_config)
    /\ th' = [th EXCEPT ![t].pc = "lc_release"]
    /\ UNCHANGED <<options, api_config, highwater_mark, project_env_id,
                   default_context, lock, is_initialized, init_latch,
                   shutdown_flag, sse_client, cache_file, close_called, rd>>

\* make_local: self.lock.release_write()
MakeLocalRelease(t) ==
    /\ th[t].pc = "lc_release"
    /\ lock' = release_write(lock)
    /\ th' = [th EXCEPT ![t].pc = "lc_finish"]
    /\ UNCHANGED <<options, api_config, highwater_mark, local_store,
                   project_env_id, default_context, is_initialized, init_latch,
                   shutdown_flag, sse_client, cache_file, close_called, rd>>

\* A load_configs that leaves opening the gate to the streaming loop.
FinishInitFromStreamOnly(t) ==
    /\ th[t].pc = "lc_finish"
    /\ is_initialized' = (is_initialized \/ t = "streaming")
    /\ init_latch' = IF t = "streaming" THEN count_down(init_latch) ELSE init_latch
    /\ th' = [th EXCEPT ![t].pc = IF t = "checkpoint" THEN "sleep" ELSE "events"]
    /\ UNCHANGED <<options, api_config, highwater_mark, local_store,
                   project_env_id, default_context, lock, shutdown_flag,
                   sse_client, cache_file, close_called, rd>>

\* load_configs: self.finish_init(source), then back in the caller: the
\* checkpoint loop goes on to its sleep, the streaming loop to the next event.
FinishInit(t) ==
    /\ th[t].pc = "lc_finish"
    /\ is_initialized' = TRUE
    /\ init_latch' = count_down(init_latch)
    /\ th' = [th EXCEPT ![t].pc = IF t = "checkpoint" THEN "sleep" ELSE "events"]
    /\ UNCHANGED <<options, api_config, highwater_mark, local_store,
                   project_env_id, default_context, lock, shutdown_flag,
                   sse_client, cache_file, close_called, rd>>

\* ---- checkpointing_loop
\* `while not self.base_client.shutdown_flag.is_set():`
CheckpointLoopTest ==
    /\ th["checkpoint"].pc = "loop"
    /\ th' = [th EXCEPT !["checkpoint"].pc =
                 IF shutdown_flag THEN "exit" ELSE "fetch"]
    /\ UNCHANGED <<options, api_config, highwater_mark, local_store,
                   project_env_id, default_context, lock, is_initialized,
                   init_latch, shutdown_flag, sse_client, cache_file,
                   close_called, rd>>

\* load_checkpoint_from_api_cdn: response.ok, load_configs(configs,
\* "remote_api_cdn") is entered.
CheckpointFetchOk ==
    /\ th["checkpoint"].pc = "fetch"
    /\ \E configs \in Payloads :
          th' = EnterLoadConfigs("checkpoint", configs, "remote_api_cdn")
    /\ UNCHANGED <<options, api_config, highwater_mark, local_store,
                   project_env_id, default_context, lock, is_initialized,
                   init_latch, shutdown_flag, sse_client, cache_file,
                   close_called, rd>>

\* load_checkpoint_from_api_cdn: a response that is not ok returns False and
\* load_checkpoint goes on to load_cache.
CheckpointFetchNotOk ==
    /\ th["checkpoint"].pc = "fetch"
    /\ th' = [th EXCEPT !["checkpoint"].pc = "load_cache"]
    /\ UNCHANGED <<options, api_config, highwater_mark, local_store,
                   project_env_id, default_context, lock, is_initialized,
                   init_latch, shutdown_flag, sse_client, cache_file,
                   close_called, rd>>

\* load_checkpoint_from_api_cdn: session.get raises (no network).  Nothing
\* catches it before checkpointing_loop's `except Exception`, which logs and
\* goes round the loop: load_cache and time.sleep are both skipped.
CheckpointFetchRaises ==
    /\ th["checkpoint"].pc = "fetch"
    /\ th' = [th EXCEPT !["checkpoint"].pc = "loop"]
    /\ UNCHANGED <<options, api_config, highwater_mark, local_store,
                   project_env_id, default_context, lock, is_initialized,
                   init_latch, shutdown_flag, sse_client, cache_file,
                   close_called, rd>>

\* load_cache: use_local_cache is off or there is no cache path, or open()
\* raises OSError: returns False, "No success loading checkpoints".
CheckpointLoadCacheFails ==
    /\ th["checkpoint"].pc = "load_cache"
    /\ \/ ~options.use_local_cache
       \/ ~options.has_cache_path
       \/ cache_file = NoFile
    /\ th' = [th EXCEPT !["checkpoint"].pc = "sleep"]
    /\ UNCHANGED <<options, api_config, highwater_mark, local_store,
                   project_env_id, default_context, lock, is_initialized,
                   init_latch, shutdown_flag, sse_client, cache_file,
                   close_called, rd>>

\* load_cache: the file is read and load_configs(configs, "cache") is entered.
CheckpointLoadCache ==
    /\ th["checkpoint"].pc = "load_cache"
    /\ options.use_local_cache
    /\ options.has_cache_path
    /\ cache_file # NoFile
    /\ th' = EnterLoadConfigs("checkpoint", cache_file, "cache")
    /\ UNCHANGED <<options, api_config, highwater_mark, local_store,
                   project_env_id, default_context, lock, is_initialized,
                   init_latch, shutdown_flag, sse_client, cache_file,
                   close_called, rd>>

\* time.sleep(self.checkpoint_freq_secs) is over.
CheckpointSleep ==
    /\ th["checkpoint"].pc = "sleep"
    /\ th' = [th EXCEPT !["checkpoint"].pc = "loop"]
    /\ UNCHANGED <<options, api_config, highwater_mark, local_store,
                   project_env_id, default_context, lock, is_initialized,
                   init_latch, shutdown_flag, sse_client, cache_file,
                   close_called, rd>>

\* ---- streaming_loop
\* `while not self.base_client.shutdown_flag.is_set():`
StreamingLoopTest ==
    /\ th["streaming"].pc = "loop"
    /\ th' = [th EXCEPT !["streaming"].pc =
                 IF shutdown_flag THEN "exit" ELSE "connect"]
    /\ UNCHANGED <<options, api_config, highwater_mark, local_store,
                   project_env_id, default_context, lock, is_initialized,
                   init_latch, shutdown_flag, sse_client, cache_file,
                   close_called, rd>>

\* session.get(url, stream=True) answers; self.sse_client = SSEClient(response)
StreamingConnect ==
    /\ th["streaming"].pc = "connect"
    /\ sse_client' = "open"
    /\ th' = [th EXCEPT !["streaming"].pc = "events"]
    /\ UNCHANGED <<options, api_config, highwater_mark, local_store,
                   project_env_id, default_context, lock, is_initialized,
                   init_latch, shutdown_flag, cache_file, close_called, rd>>

\* session.get raises: `except Exception`, round the loop.
StreamingConnectRaises ==
    /\ th["streaming"].pc = "connect"
    /\ th' = [th EXCEPT !["streaming"].pc = "loop"]
    /\ UNCHANGED <<options, api_config, highwater_mark, local_store,
                   project_env_id, default_context, lock, is_initialized,
                   init_latch, shutdown_flag, sse_client, cache_file,
                   close_called, rd>>

\* `for event in self.sse_client.events():` yields an event with data and
\* load_configs(configs, "sse_streaming") is entered.
StreamingEvent ==
    /\ th["streaming"].pc = "events"
    /\ sse_client = "open"
    /\ \E configs \in Payloads :
          th' = EnterLoadConfigs("streaming", configs, "sse_streaming")
    /\ UNCHANGED <<options, api_config, highwater_mark, local_store,
                   project_env_id, default_context, lock, is_initialized,
                   init_latch, shutdown_flag, sse_client, cache_file,
                   close_called, rd>>

\* The event stream ends (the server hangs up, or the connection was closed
\* under it) by StopIteration or by an exception: round the loop.
StreamingDisconnect ==
    /\ th["streaming"].pc = "events"
    /\ th' = [th EXCEPT !["streaming"].pc = "loop"]
    /\ UNCHANGED <<options, api_config, highwater_mark, local_store,
                   project_env_id, default_context, lock, is_initialized,
                   init_latch, shutdown_flag, sse_client, cache_file,
                   close_called, rd>>

\* ---- the application
\* ConfigClient.is_ready
is_ready == is_initialized

\* Close, had it also cleared the Event it has no business with.
CloseClearingGate ==
    /\ sse_client' = IF sse_client = "None" THEN "None" ELSE "closed"
    /\ close_called' = TRUE
    /\ is_initialized' = FALSE
    /\ UNCHANGED <<options, api_config, highwater_mark, local_store,
                   project_env_id, default_context, lock,
                   init_latch, shutdown_flag, cache_file, th, rd>>

\* ConfigClient.close: `if self.sse_client: self.sse_client.close()`
Close ==
    /\ sse_client' = IF sse_client = "None" THEN "None" ELSE "closed"
    /\ close_called' = TRUE
    /\ UNCHANGED <<options, api_config, highwater_mark, local_store,
                   project_env_id, default_context, lock, is_initialized,
                   init_latch, shutdown_flag, cache_file, th, rd>>

\* The process-wide shutdown signal: base_client.shutdown_flag.set()
Shutdown ==
    /\ ~shutdown_flag
    /\ shutdown_flag' = TRUE
    /\ UNCHANGED <<options, api_config, highwater_mark, local_store,
                   project_env_id, default_context, lock, is_initialized,
                   init_latch, sse_client, cache_file, th, close_called, rd>>

\* ------------------------------------------------------------- construction
Options(mode, on_connection_failure, on_no_default, use_local_cache, has_cache_path) ==
    [mode |-> mode, on_connection_failure |-> on_connection_failure,
     on_no_default |-> on_no_default, use_local_cache |-> use_local_cache,
     has_cache_path |-> has_cache_path, connection_timeout_seconds |-> 10]

\* ConfigResolver.__init__ and ConfigLoader.__init__: nothing loaded; the
\* gate is open only when __init__ called finish_init("local only").
Unloaded(opened) ==
    /\ api_config = EmptyStore
    /\ highwater_mark = 0
    /\ local_store = calc_config(EmptyStore)
    /\ project_env_id = 0
    /\ default_context = EmptyContext
    /\ is_initialized = opened
    /\ init_latch = IF opened THEN count_down(1) ELSE 1

\* load_json_file(datafile) has run load_configs(configs, "datafile") to its end.
Loaded(configs) ==
    LET l == set_all([api_config |-> EmptyStore, highwater_mark |-> 0],
                     configs.configs, 1)
    IN  /\ api_config = l.api_config
        /\ highwater_mark = l.highwater_mark
        /\ local_store = calc_config(l.api_config)
        /\ project_env_id = configs.project_env_id
        /\ default_context = configs.default_context
        /\ is_initialized = TRUE
        /\ init_latch = count_down(1)

\* A constructor that starts the two loops in datafile mode as well.
ConstructedStartingThreads(datafiles) ==
    /\ lock = FreeLock
    /\ shutdown_flag = FALSE
    /\ sse_client = "None"
    /\ close_called = FALSE
    /\ rd = IdleReader
    /\ \/ /\ options.mode = "local_only"
          /\ Unloaded(TRUE)
          /\ th = [t \in Threads |-> ThreadAt("not_started")]
       \/ /\ options.mode = "datafile"
          /\ \E configs \in datafiles : Loaded(configs)
          /\ th = [t \in Threads |-> ThreadAt("loop")]
       \/ /\ options.mode = "remote"
          /\ Unloaded(FALSE)
          /\ th = [t \in Threads |-> ThreadAt("loop")]

\* The state ConfigClient.__init__ leaves behind, by mode; datafiles are the
\* contents options.datafile may have.
Constructed(datafiles) ==
    /\ lock = FreeLock
    /\ shutdown_flag = FALSE
    /\ sse_client = "None"
    /\ close_called = FALSE
    /\ rd = IdleReader
    /\ \/ /\ options.mode = "local_only"
          /\ Unloaded(TRUE)
          /\ th = [t \in Threads |-> ThreadAt("not_started")]
       \/ /\ options.mode = "datafile"
          /\ \E configs \in datafiles : Loaded(configs)
          /\ th = [t \in Threads |-> ThreadAt("not_started")]
       \/ /\ options.mode = "remote"
          /\ Unloaded(FALSE)
          /\ th = [t \in Threads |-> ThreadAt("loop")]

Modes == {"local_only", "datafile", "remote"}

\* ------------------------------------------------------------ specifications
LoadConfigs(t) ==
    \/ LoadConfigsEnv(t)
    \/ LoadConfigsContext(t)
    \/ LoadConfigsSet(t)
    \/ MakeLocalAcquire(t)
    \/ MakeLocalSwap(t)
    \/ MakeLocalRelease(t)
    \/ FinishInit(t)

CheckpointThread ==
    \/ CheckpointLoopTest
    \/ CheckpointFetchOk
    \/ CheckpointFetchNotOk
    \/ CheckpointFetchRaises
    \/ CheckpointLoadCacheFails
    \/ CheckpointLoadCache
    \/ CheckpointSleep
    \/ LoadConfigs("checkpoint")

StreamingThread ==
    \/ StreamingLoopTest
    \/ StreamingConnect
    \/ StreamingConnectRaises
    \/ StreamingEvent
    \/ StreamingDisconnect
    \/ LoadConfigs("streaming")

Reader(keys, defaults, contexts) ==
    \/ ReaderCall(keys, defaults, contexts)
    \/ ReaderWaitOk
    \/ ReaderAcquireRead
    \/ ReaderRaw
    \/ ReaderReleaseRead
    \/ ReaderEvaluate
    \/ ReaderReturn

\* The ways the disk cache can stand: in use with or without a file from an
\* earlier run, switched off (use_local_cache false) beside such a file, or
\* without a cache path (neither HOME nor XDG_CACHE_HOME set).
CacheSetups ==
    {[use |-> TRUE, path |-> TRUE, file |-> NoFile],
     [use |-> TRUE, path |-> TRUE, file |-> Payload(1)],
     [use |-> FALSE, path |-> TRUE, file |-> Payload(1)],
     [use |-> TRUE, path |-> FALSE, file |-> NoFile]}

\* The synchronisation machinery: every mode, both loops, close and shutdown.
Init ==
    /\ \E m \in Modes, c \in CacheSetups :
          /\ options = Options(m, "RETURN", "RETURN_NONE", c.use, c.path)
          /\ cache_file = c.file
    /\ Constructed(Payloads)

Next ==
    \/ CheckpointThread
    \/ StreamingThread
    \/ Close
    \/ Shutdown

Spec == Init /\ [][Next]_vars

\* Lookups running against the checkpoint loop in remote mode.
InitLookup ==
    /\ options \in {Options("remote", f, d, TRUE, TRUE) :
                        f \in {"RAISE", "RETURN"}, d \in {"RAISE", "RETURN_NONE"}}
    /\ cache_file \in {NoFile, Payload(1)}
    /\ Constructed(Payloads)

\* What the application asks for: a key the service holds and one it does
\* not, with and without a default, under the empty context.
LookupKeys == {Flag, NoKey}
LookupDefaults == {NoDefaultProvided, "dflt"}
LookupContexts == {EmptyContext}

NextLookup ==
    \/ CheckpointThread
    \/ Reader(LookupKeys, LookupDefaults, LookupContexts)
    \/ ReaderWaitTimeout

SpecLookup == InitLookup /\ [][NextLookup]_vars

\* The evaluator on enumerated rules: a datafile holding one rule for Flag
\* (every shape up to MaxValues conditional values per row) and, or not, the
\* segment it may name; lookups under each context.
EvalCriteria ==
    {<<>>,
     \* two criteria: p is not "b", and p is "ab"
     <<Criterion("p", "PROP_IS_NOT_ONE_OF", StringList(<<B>>)),
       Criterion("p", "PROP_IS_ONE_OF", StringList(<<AB>>))>>,
     <<Criterion("p", "HIERARCHICAL_MATCH", StringOf(<<"a">>))>>,
     <<Criterion("", "IN_SEG", SegRef(Seg))>>}

\* Rows of environment env: the i-th conditional value carries the value
\* "<env>.<i>", so that the value returned tells the row and the index.
EvalRows(env) ==
    {ConfigRow(env, [i \in 1..Len(cs) |->
                        ConditionalValue(cs[i],
                            StringValue(ToString(env) \o "." \o ToString(i)))]) :
        cs \in UNION {[1..n -> EvalCriteria] : n \in 0..MaxValues}}

\* Rules for Flag: no row, one row, or one row for each of the environments
\* 0 and 1 in either order (at most one row per environment).
EvalRules ==
    {Config(Flag, 1, rows) :
        rows \in {<<>>}
            \cup {<<r>> : r \in EvalRows(0) \cup EvalRows(1)}
            \cup {<<r, q>> : r \in EvalRows(0), q \in EvalRows(1)}
            \cup {<<q, r>> : r \in EvalRows(0), q \in EvalRows(1)}}

\* The segment of the enumerated datafiles: true for p = "ab", false for
\* p = "b", no match otherwise.
EvalSegRule ==
    Config(Seg, 1,
        <<ConfigRow(0,
            <<ConditionalValue(
                  <<Criterion("p", "PROP_IS_ONE_OF", StringList(<<AB>>))>>,
                  BoolValue(TRUE)),
              ConditionalValue(
                  <<Criterion("p", "PROP_IS_ONE_OF", StringList(<<B>>))>>,
                  BoolValue(FALSE))>>)>>)

EvalDatafiles ==
    {Configs(env, EmptyContext, <<rule>> \o segs) :
        env \in {0, 1}, rule \in EvalRules, segs \in {<<>>, <<EvalSegRule>>}}

EvalContexts == {EmptyContext, ContextOf(AB), ContextOf(B)}

InitEval ==
    /\ options = Options("datafile", "RETURN", "RETURN_NONE", FALSE, FALSE)
    /\ cache_file = NoFile
    /\ Constructed(EvalDatafiles)

EvalKeys == {Flag}
EvalDefaults == {"dflt"}

NextEval == Reader(EvalKeys, EvalDefaults, EvalContexts)

SpecEval == InitEval /\ [][NextEval]_vars

\* ================================================================== claims

\* C1: once finish_init has run, is_ready() is true in every later state:
\* no step of either loop, of close or of shutdown closes the gate again.
GateStaysOpen == [][is_ready => is_ready']_vars
\* The gate is open after close() was called, with the checkpoint fetch
\* having just failed and the stream closed under the streaming loop.
GateStaysOpenWitness ==
    /\ is_ready
    /\ close_called
    /\ th["checkpoint"].pc = "load_cache"
    /\ sse_client = "closed"
    /\ th["streaming"].pc = "loop"

\* C7: after close() has returned neither loop goes round again: the
\* streaming loop does not set out to open another stream connection and the
\* checkpoint loop does not set out on another fetch and load.
NothingStartsAfterClose ==
    [][close_called =>
         /\ ~(th["streaming"].pc = "loop" /\ th'["streaming"].pc = "connect")
         /\ ~(th["checkpoint"].pc = "loop" /\ th'["checkpoint"].pc = "fetch")]_vars

\* C8: a checkpoint fetch that does not end in a load (a response that is not
\* ok, or an exception of the transport) is followed by load_cache in the same
\* iteration.
FetchFailureFallsBackToCache ==
    [][(th["checkpoint"].pc = "fetch" /\ th'["checkpoint"].pc \notin {"fetch", "lc_env"})
          => th'["checkpoint"].pc = "load_cache"]_vars

\* C9: with use_local_cache on and a cache path, a thread that has come back
\* from load_configs of a remote_api_cdn or sse_streaming payload finds the
\* cache file holding a payload so loaded (its own, or the other loop's when
\* that wrote last).
RemoteSources == {"remote_api_cdn", "sse_streaming"}
CacheWrittenAfterLoad ==
    \A t \in Threads :
        (/\ options.use_local_cache
         /\ options.has_cache_path
         /\ th[t].pc \in {"sleep", "events"}
         /\ th[t].source \in RemoteSources)
        => \E u \in Threads :
              th[u].source \in RemoteSources /\ cache_file = th[u].configs

\* C2: a lookup sees one snapshot: all the rules a single get(key) has read,
\* the rule of the key and the segment rules fetched for its IN_SEG /
\* NOT_IN_SEG criteria, are the rules of one and the same published mapping.
LookupReads ==
    {[key |-> rd.stack[i].config.key, config |-> rd.stack[i].config,
      snap |-> rd.stack[i].snap] : i \in 1..Len(rd.stack)}
    \cup (IF rd.pc \in {"release_read", "evaluate"}
          THEN {[key |-> rd.call_key, config |-> rd.raw_config, snap |-> rd.snap]}
          ELSE {})
LookupSeesOneSnapshot ==
    LookupReads # {} =>
        \E s \in {r.snap : r \in LookupReads} :
            \A r \in LookupReads : raw_in(s, r.key) = r.config

\* C3: load_configs of a batch whose highwater mark is not above the store's
\* leaves the mapping, the mark, the default context and the environment id as
\* they were: no step of such a call changes any of them.
RECURSIVE MarkFrom(_, _)
MarkFrom(configs, i) ==
    IF i > Len(configs) THEN 0 ELSE Max(configs[i].id, MarkFrom(configs, i + 1))
BatchMark(configs) == MarkFrom(configs.configs, 1)
InLoadConfigs(t) ==
    th[t].pc \in {"lc_env", "lc_ctx", "lc_set", "lc_acquire", "lc_swap",
                  "lc_release", "lc_finish"}
\* the store's mark when thread t entered load_configs
MarkAtEntry(t) ==
    IF th[t].pc = "lc_env" THEN highwater_mark ELSE th[t].starting_highwater_mark
StaleBatchChangesNothing ==
    [][\A t \in Threads :
          (/\ InLoadConfigs(t)
           /\ th'[t] # th[t]
           /\ BatchMark(th[t].configs) <= MarkAtEntry(t))
          => UNCHANGED <<local_store, highwater_mark, default_context,
                         project_env_id>>]_vars

\* C4: with both policies set to degrade, get returns a value and never
\* raises, whatever the snapshot and the context.
Degrading ==
    /\ options.on_connection_failure # "RAISE"
    /\ options.on_no_default # "RAISE"
LookupNeverRaises ==
    (rd.pc = "done" /\ Degrading) => rd.result.kind = "return"

\* C5: a lookup whose wait on the gate timed out: under RAISE it ends in
\* InitializationTimeoutException naming the key and the timeout, without
\* having read the snapshot; otherwise it goes on to read the snapshot, never
\* ends in that exception, and on an empty snapshot returns the default it
\* was given.
TimeoutPolicy ==
    rd.timed_out =>
        IF options.on_connection_failure = "RAISE"
        THEN /\ rd.pc = "done"
             /\ rd.result = InitializationTimeoutException(
                                options.connection_timeout_seconds, rd.key)
             /\ ~rd.top_read
        ELSE /\ rd.result.exc # "InitializationTimeoutException"
             /\ rd.pc = "done" =>
                  /\ rd.top_read
                  /\ (rd.top_snap = EmptyStore /\ rd.default # NoDefaultProvided)
                        => rd.result = Return(rd.default)
\* A timed-out lookup under the degrade policy has read the empty snapshot
\* and returned its default.
TimeoutPolicyWitness ==
    /\ rd.timed_out
    /\ options.on_connection_failure # "RAISE"
    /\ rd.pc = "done"
    /\ rd.top_snap = EmptyStore
    /\ rd.default = "dflt"
    /\ rd.result = Return("dflt")

\* C6: a lookup that got past the gate and found its key absent, or found a
\* rule that evaluated to no match, ends as the default policy says: the
\* default when one was given, else MissingDefaultException naming the key
\* under RAISE, else None.
FellToDefault ==
    /\ rd.pc = "done"
    /\ rd.top_read
    /\ rd.result.exc \notin {"AttributeError", "RecursionError"}
    /\ rd.evaluation_result = NoneEvaluation
DefaultPolicy ==
    FellToDefault =>
        rd.result = IF rd.default # NoDefaultProvided
                    THEN Return(rd.default)
                    ELSE IF options.on_no_default = "RAISE"
                         THEN [kind |-> "raise", value |-> NoneVal,
                               exc |-> "MissingDefaultException",
                               key |-> rd.key, timeout |-> 0]
                         ELSE Return(NoneVal)
\* The key was present, its rule matched nothing, no default was given and
\* the policy is RAISE.
DefaultPolicyWitness ==
    /\ FellToDefault
    /\ rd.top_raw # NoneConfig
    /\ rd.default = NoDefaultProvided
    /\ options.on_no_default = "RAISE"
    /\ rd.result.exc = "MissingDefaultException"

\* C10: when some conditional value of the row of the active environment
\* matches the context, evaluate returns an Evaluation with config_row_index
\* 0 whose value is a value of that row; config_row_index 1 is returned only
\* when no conditional value of that row matches (or there is no such row).
\* What the segment named key evaluates to for props in the store at hand
\* (a segment that names no further segment).
SegmentOutcome(key, props) ==
    IF raw(key) = NoneConfig
    THEN "AttributeError"
    ELSE LET out == evaluate_from(raw(key), project_env_id,
                                  merge_default(props, default_context), 0, 1, 1)
         IN  IF out.kind = "return" THEN in_segment(out.evaluation)
             ELSE "AttributeError"
CriterionHolds(c, props) ==
    IF c.operator \in SegOps
    THEN /\ SegmentOutcome(c.value_to_match.string, props) # "AttributeError"
         /\ evaluate_criterion(c, props,
                SegmentOutcome(c.value_to_match.string, props) = "True") = "True"
    ELSE evaluate_criterion(c, props, FALSE) = "True"
ValueMatches(cv, props) ==
    \A i \in 1..Len(cv.criteria) : CriterionHolds(cv.criteria[i], props)
EnvRowMatches(config, props) ==
    \E r \in 1..Len(config.rows) :
        /\ config.rows[r].project_env_id = project_env_id
        /\ \E i \in 1..Len(config.rows[r].values) :
              ValueMatches(config.rows[r].values[i], props)
EnvRowPriority ==
    (rd.pc = "done" /\ rd.top_raw # NoneConfig) =>
        LET props == merge_default(rd.context, default_context)
            e == rd.evaluation_result
        IN  /\ EnvRowMatches(rd.top_raw, props) =>
                  /\ e.config_row_index = 0
                  /\ \E r \in 1..Len(rd.top_raw.rows) :
                        /\ rd.top_raw.rows[r].project_env_id = project_env_id
                        /\ e.value_index + 1 \in 1..Len(rd.top_raw.rows[r].values)
                        /\ e.value = rd.top_raw.rows[r].values[e.value_index + 1].value
            /\ e.config_row_index = 1 => ~EnvRowMatches(rd.top_raw, props)

\* C11: first match wins.  A lookup that ends in an Evaluation has matched, in
\* the row it selected, the conditional value of the smallest index all of
\* whose criteria hold for the context, and returns that value; a lookup that
\* did not raise and found a conditional value without criteria in one of the
\* two rows scanned ends in an Evaluation.
ScannedValues(config, row) == RowValues(config, project_env_id, row)
HasUnconditional(values) ==
    \E i \in 1..Len(values) : values[i].criteria = <<>>
FirstMatchWins ==
    (/\ rd.pc = "done"
     /\ rd.top_raw # NoneConfig
     /\ rd.result.exc \notin {"AttributeError", "RecursionError"}) =>
        LET props == merge_default(rd.context, default_context)
            e == rd.evaluation_result
        IN  IF e = NoneEvaluation
            THEN \A row \in {0, 1} :
                    ~HasUnconditional(ScannedValues(rd.top_raw, row))
            ELSE LET values == ScannedValues(rd.top_raw, e.config_row_index)
                     i == e.value_index + 1
                 IN  /\ i \in 1..Len(values)
                     /\ ValueMatches(values[i], props)
                     /\ \A j \in 1..(i - 1) : ~ValueMatches(values[j], props)
                     /\ e.value = values[i].value
                     /\ rd.result = Return(unwrap(values[i].value))
\* The first conditional value won through its segment criterion although
\* the second, listed later, matches the context as well.
FirstMatchWinsWitness ==
    /\ rd.pc = "done"
    /\ rd.evaluation_result # NoneEvaluation
    /\ rd.evaluation_result.value_index = 0
    /\ LET values == ScannedValues(rd.top_raw, rd.evaluation_result.config_row_index)
       IN  /\ Len(values) >= 2
           /\ Len(values[1].criteria) = 1
           /\ values[1].criteria[1].operator = "IN_SEG"
           /\ values[2].criteria # <<>>
           /\ ValueMatches(values[2], merge_default(rd.context, default_context))

\* ------------------------------------------------- the paired operators
\* Longest string list a criterion of SpecOps carries.
MaxListLen == 2

\* Each positive operator and its negation.
OpPairs ==
    {<<"LOOKUP_KEY_IN", "LOOKUP_KEY_NOT_IN">>,
     <<"PROP_IS_ONE_OF", "PROP_IS_NOT_ONE_OF">>,
     <<"PROP_ENDS_WITH_ONE_OF", "PROP_DOES_NOT_END_WITH_ONE_OF">>}
PairedOps == {pr[1] : pr \in OpPairs} \cup {pr[2] : pr \in OpPairs}
\* The operator paired with op.
Counterpart(op) ==
    LET pr == CHOOSE q \in OpPairs : op \in {q[1], q[2]}
    IN  IF op = pr[1] THEN pr[2] ELSE pr[1]

\* Values to match: string lists over "ab", "b" and "None" (what str() makes
\* of an absent value), and the plain strings that matches() compares with ==.
OpsStrings == {AB, B, StrNone}
OpsValues ==
    {StringList(l) : l \in UNION {[1..n -> OpsStrings] : n \in 0..MaxListLen}}
        \cup {StringOf(AB), StringOf(B)}

\* A rule whose only conditional value carries the one criterion c.
CriterionRule(c) ==
    Config(Flag, 1, <<ConfigRow(1, <<ConditionalValue(<<c>>, StringValue("match"))>>)>>)
OpsDatafiles ==
    {Configs(1, EmptyContext, <<CriterionRule(Criterion(prop, op, vtm))>>) :
        prop \in {"p", "NAMESPACE"}, op \in PairedOps, vtm \in OpsValues}
OpsContexts == {EmptyContext, ContextOf(AB), ContextOf(B)}

\* Lookups of a rule of one paired criterion, loaded from a datafile.
InitOps ==
    /\ options = Options("datafile", "RETURN", "RETURN_NONE", FALSE, FALSE)
    /\ cache_file = NoFile
    /\ Constructed(OpsDatafiles)

NextOps == Reader(EvalKeys, EvalDefaults, OpsContexts)

SpecOps == InitOps /\ [][NextOps]_vars

\* C12: the negative operators are the negations of the positive ones.  A
\* lookup of a rule of one paired criterion matches exactly when the
\* criterion with the paired operator, on the same value to match and the
\* same context, does not; and for an absent context value the positive
\* ends-with operator does not match and the negative one does.
TheCriterion == rd.top_raw.rows[1].values[1].criteria[1]
TheValue ==
    IF TheCriterion.property_name = "NAMESPACE"
    THEN Namespace
    ELSE context_get(merge_default(rd.context, default_context),
                     TheCriterion.property_name)
NegationPairs ==
    rd.pc = "done" =>
        LET c == TheCriterion
            props == merge_default(rd.context, default_context)
            other == [c EXCEPT !.operator = Counterpart(c.operator)]
            matched == rd.result = Return("match")
        IN  /\ rd.result \in {Return("match"), Return("dflt")}
            /\ matched # (evaluate_criterion(other, props, FALSE) = "True")
            /\ (TheValue = PyNone /\ c.operator = "PROP_ENDS_WITH_ONE_OF")
                  => ~matched
            /\ (TheValue = PyNone /\ c.operator = "PROP_DOES_NOT_END_WITH_ONE_OF")
                  => matched
\* The negative ends-with operator matched an absent context value although
\* the list holds "None", which str() of the absent value ends with.
NegationPairsWitness ==
    /\ rd.pc = "done"
    /\ TheCriterion.operator = "PROP_DOES_NOT_END_WITH_ONE_OF"
    /\ TheCriterion.property_name = "p"
    /\ TheValue = PyNone
    /\ TheCriterion.value_to_match = StringList(<<StrNone>>)
    /\ rd.result = Return("match")

\* ------------------------------------------------------------- progress
\* Remote mode under a fair scheduler.  A thread inside load_configs is
\* running Python code and is scheduled again and again; a thread waiting in
\* acquire_write gets the lock if it comes free again and again.  Nothing
\* is assumed of the network: a fetch or a connection may hang forever and
\* an open stream may stay silent.
InitLive ==
    /\ options = Options("remote", "RETURN", "RETURN_NONE", TRUE, TRUE)
    /\ cache_file \in {NoFile, Payload(1)}
    /\ Constructed(Payloads)

Runs(t) ==
    \/ LoadConfigsEnv(t)
    \/ LoadConfigsContext(t)
    \/ LoadConfigsSet(t)
    \/ MakeLocalSwap(t)
    \/ MakeLocalRelease(t)
    \/ FinishInit(t)

Fairness ==
    \A t \in Threads : WF_vars(Runs(t)) /\ SF_vars(MakeLocalAcquire(t))

SpecLive == InitLive /\ [][Next]_vars /\ Fairness

\* C13: the checkpoint loop alone opens the gate.  Once an iteration of the
\* checkpoint loop has a payload to load (from the endpoint or from the disk
\* cache), the gate opens, whatever the streaming loop does or fails to do.
CheckpointOpensGate ==
    (th["checkpoint"].pc = "lc_env") ~> is_ready
\* The gate is open through a load from the disk cache while the streaming
\* loop has never got a connection.
CheckpointOpensGateWitness ==
    /\ is_ready
    /\ th["checkpoint"].pc = "sleep"
    /\ th["checkpoint"].source = "cache"
    /\ sse_client = "None"
    /\ th["streaming"].pc = "connect"
    /\ th["streaming"].source = ""

\* C14: the mode fixes what the constructor starts.  In local-only mode the
\* gate is open, the snapshot is and stays empty and nothing is ever
\* fetched; in datafile mode the gate is open from the load of the file; in
\* neither does a background thread ever run.  In remote mode both loops are
\* started and the gate is closed until one of them has loaded something.
NoThreadStarted ==
    /\ \A t \in Threads : th[t] = ThreadAt("not_started")
    /\ sse_client = "None"
ModeSelection ==
    /\ options.mode = "local_only" =>
          /\ is_ready
          /\ local_store = EmptyStore
          /\ api_config = EmptyStore
          /\ NoThreadStarted
    /\ options.mode = "datafile" =>
          /\ is_ready
          /\ \E configs \in Payloads : Loaded(configs)
          /\ NoThreadStarted
    /\ options.mode = "remote" =>
          /\ \A t \in Threads : th[t].pc # "not_started"
          /\ (\A t \in Threads : th[t].source = "") => ~is_ready
\* A client built from a datafile, after close() and the shutdown signal.
ModeSelectionWitness ==
    /\ options.mode = "datafile"
    /\ is_ready
    /\ local_store # EmptyStore
    /\ close_called
    /\ shutdown_flag

\* C15: loads are serialized across the two loops.  At most one thread is
\* between the first write of load_configs and its swap, and the published
\* mapping is what whole batches leave behind: every batch carries both
\* rules at one id, so after whole batches the two rules have the same id.
Writing(t) == th[t].pc \in {"lc_ctx", "lc_set", "lc_acquire", "lc_swap"}
PublishedWholeBatches ==
    local_store # EmptyStore =>
        /\ DOMAIN local_store = {Flag, Seg}
        /\ raw(Flag).id = raw(Seg).id
LoadsSerialized ==
    /\ ~(Writing("checkpoint") /\ Writing("streaming"))
    /\ PublishedWholeBatches

\* C16: once the shutdown flag is set, neither loop starts a network call
\* (no loop passes its while test into a connection or a fetch) and the
\* streaming loop applies no event that arrives on its open stream.
ShutdownStopsLoops ==
    [][shutdown_flag =>
         /\ ~(th["streaming"].pc = "loop" /\ th'["streaming"].pc = "connect")
         /\ ~(th["checkpoint"].pc = "loop" /\ th'["checkpoint"].pc = "fetch")
         /\ ~(th["streaming"].pc = "events" /\ th'["streaming"].pc = "lc_env")]_vars

\* C17: the checkpoint loop comes back to its while test only from the
\* interval wait, whether the attempt before loaded, failed or raised, and
\* leaves the loop only when the shutdown flag is set.
IntervalBetweenAttempts ==
    [][th'["checkpoint"].pc # th["checkpoint"].pc =>
         /\ th'["checkpoint"].pc = "loop" => th["checkpoint"].pc = "sleep"
         /\ th'["checkpoint"].pc = "exit" => shutdown_flag]_vars

\* ------------------------------------------------- lookups through Client
\* Client.get beside the checkpoint loop in remote mode.
InitClient ==
    /\ options = Options("remote", "RETURN", "RETURN_NONE", TRUE, TRUE)
    /\ cache_file \in {NoFile, Payload(1)}
    /\ Constructed(Payloads)

NextClient ==
    \/ CheckpointThread
    \/ ClientGet(LookupKeys, LookupDefaults, LookupContexts)
    \/ ClientIsFF
    \/ ReaderWaitOk
    \/ ReaderWaitTimeout
    \/ ReaderAcquireRead
    \/ ReaderRaw
    \/ ReaderReleaseRead
    \/ ReaderEvaluate
    \/ ReaderReturn

SpecClient == InitClient /\ [][NextClient]_vars

\* C18: every read of the live mapping made for a lookup, the is_ff probe
\* of Client.get and the raw() of ConfigResolver.get, is made with the read
\* lock held and while no writer holds the lock.
ReadsMapping == rd.pc \in {"is_ff", "raw"} /\ rd'.pc # rd.pc
ReadsUnderReadLock ==
    [][ReadsMapping => (lock.readers > 0 /\ ~lock.writer)]_vars

\* C19: the write lock is held for the pointer swap only: whenever a thread
\* holds it, the mapping to publish is already built, so no thread holding
\* the lock still has its calc_config() to run.
BuildsUnderWriteLock(t) == th[t].pc = "lc_swap" /\ lock.writer
WriteLockOnlyForSwap == \A t \in Threads : ~BuildsUnderWriteLock(t)

\* ------------------------------------------------- segments naming segments
Seg2 == <<"s", "e", "g", "2">>
\* A segment that is true when `op target` holds and false otherwise.
SegNaming(key, op, target) ==
    Config(key, 1,
        <<ConfigRow(1,
            <<ConditionalValue(<<Criterion("", op, SegRef(target))>>,
                               BoolValue(TRUE)),
              ConditionalValue(<<>>, BoolValue(FALSE))>>)>>)
\* A segment that names no other: true for p = "ab", false otherwise.
LeafSeg(key) ==
    Config(key, 1,
        <<ConfigRow(1,
            <<ConditionalValue(
                  <<Criterion("p", "PROP_IS_ONE_OF", StringList(<<AB>>))>>,
                  BoolValue(TRUE)),
              ConditionalValue(<<>>, BoolValue(FALSE))>>)>>)
\* The segments behind the flag: a chain that ends in a leaf, a segment
\* that names itself (by IN_SEG or by NOT_IN_SEG), two that name each other.
CycleSegments ==
    {<<SegNaming(Seg, "IN_SEG", Seg2), LeafSeg(Seg2)>>,
     <<SegNaming(Seg, "NOT_IN_SEG", Seg2), LeafSeg(Seg2)>>,
     <<SegNaming(Seg, "IN_SEG", Seg)>>,
     <<SegNaming(Seg, "NOT_IN_SEG", Seg)>>,
     <<SegNaming(Seg, "IN_SEG", Seg2), SegNaming(Seg2, "IN_SEG", Seg)>>}
CycleDatafiles ==
    {Configs(1, ctx, <<FlagRule(1)>> \o segs) :
        ctx \in {EmptyContext, ContextOf(AB)}, segs \in CycleSegments}
CycleKeys == {Flag, Seg}

InitCycle ==
    /\ options = Options("datafile", "RETURN", "RETURN_NONE", FALSE, FALSE)
    /\ cache_file = NoFile
    /\ Constructed(CycleDatafiles)

NextCycle == Reader(CycleKeys, EvalDefaults, EvalContexts)

SpecCycle == InitCycle /\ [][NextCycle]_vars

\* C20: a lookup ends by returning, whatever the segments name: no lookup
\* runs into the interpreter's recursion limit.
EvaluationTerminates ==
    rd.pc = "done" => rd.result.exc # "RecursionError"

\* ------------------------------------------------------ swap before readiness
\* The keys of a batch of rules.
KeysOf(configs) == {configs.configs[i].key : i \in 1..Len(configs.configs)}
\* The gate callers wait on, and the event is_ready() reads.
GateOpen == init_latch = 0 \/ is_initialized
\* The batches a load can have brought in: the service's, and the cache file.
Loadable == Payloads \cup ({cache_file} \ {NoFile})

\* C21: swap precedes readiness.  In datafile and remote modes, whenever the
\* gate is open the published mapping is no longer the empty mapping of
\* construction: it holds every key of a batch that a load brought in, so a
\* lookup let through by the gate finds the key of the load that opened it.
SwapPrecedesReadiness ==
    (options.mode # "local_only" /\ GateOpen) =>
        /\ local_store # calc_config(EmptyStore)
        /\ \E configs \in Loadable :
              /\ KeysOf(configs) # {}
              /\ \A k \in KeysOf(configs) : raw(k) # NoneConfig
\* The gate has just been opened by a load in remote mode, and again the
\* datafile's load has opened it.
SwapPrecedesReadinessWitness ==
    /\ options.mode = "remote"
    /\ GateOpen
    /\ \E t \in Threads : th[t].pc \in {"sleep", "events"} /\ th[t].source # ""
    /\ raw(Flag) # NoneConfig

\* ------------------------------------------------- one load behind a lookup
\* The rule, the default context and the environment id all come from one
\* and the same batch.
FromOneLoad(config, context, env) ==
    \E configs \in Loadable :
        /\ \E i \in 1..Len(configs.configs) : configs.configs[i] = config
        /\ context = configs.default_context
        /\ env = configs.project_env_id

\* C22: a lookup evaluates against state from a single load.  Whenever
\* ConfigResolver.evaluate runs, the rule it was handed, the default context
\* it merges in and the project_env_id it passes on belong to the same
\* load_configs call.
EvaluatesAgainstOneLoad ==
    [][ReaderEvaluate =>
          FromOneLoad(rd.raw_config, default_context, project_env_id)]_vars

====
